---- MODULE Spec2Model ----
(***************************************************************************)
(* Model of the POST /transcribe request pipeline of mp3-transcriber       *)
(* (src/src/app/transcription.py): request validation, per-file            *)
(* validation, concurrent save, concurrent transcription, archive          *)
(* construction and the cleanup of the per-request working directory.      *)
(*                                                                         *)
(* Python lists are sequences (1-based here); a Python index i is the      *)
(* position i+1.  Strings that the code takes apart (file names, the       *)
(* Authorization header, transcripts) are sequences of one-character       *)
(* strings; None is the one-element sequence <<"None">>, which is no       *)
(* string of characters.                                                   *)
(***************************************************************************)
EXTENDS Integers, Sequences, FiniteSets, TLC

VARIABLES
    files,              \* request: the uploaded files (List[UploadFile])
    language,           \* request: the language form field
    authorization,      \* request: the Authorization header (Optional[str])
    pc,                 \* position of handle_transcription
    api_key,            \* result of validate_request_data
    dirs,               \* run directories existing under TEMP_DIR
    disk,               \* files on disk: set of [path, data, size]
    cleanup_needed,     \* the handler's cleanup flag
    validation_errors,  \* process_files: List[str]
    save_tasks,         \* process_files: the save_file coroutines, in order
    save_results,       \* results of the save tasks, pending until run
    saved_files,        \* process_files: List[str] of saved paths
    output_filenames,   \* process_files: Dict[int, str], a function on its keys
    results,            \* results of the transcription tasks, in order
    archive,            \* transcriptions.zip: sequence of [name, content]
    response,           \* what leaves the handler: status and detail
    called,             \* history: which stages have been invoked
    faults,             \* history: which calls the environment made raise
    outcome,            \* history: per Python index, what happened to the item
    tasks,              \* the coroutines of the two asyncio.gather calls
    clock,              \* time.time(), in seconds
    temp_root,          \* TEMP_DIR as the scheduler's job sees it
    sweep,              \* position and history of cleanup_old_files
    scheduler,          \* the AsyncIOScheduler of tasks.py
    cleanup             \* the finally blocks of the requests that own the
                        \* directories under TEMP_DIR

vars == <<files, language, authorization, pc, api_key, dirs, disk,
          cleanup_needed, validation_errors, save_tasks, save_results,
          saved_files, output_filenames, results, archive, response,
          called, faults, outcome, tasks, clock, temp_root, sweep, scheduler,
          cleanup>>

\* the state of src/app/tasks.py
reaperVars == <<clock, temp_root, sweep, scheduler, cleanup>>

\* the state of one call of handle_transcription
handlerVars == <<files, language, authorization, pc, api_key, dirs, disk,
                 cleanup_needed, validation_errors, save_tasks, save_results,
                 saved_files, output_filenames, results, archive, response,
                 called, faults, outcome, tasks>>

----------------------------------------------------------------------------
(* Program constants *)

MAX_FILES_LIMIT == 5

MAX_FILE_SIZE == 100 * 1024 * 1024

SUPPORTED_LANGUAGES == {"en", "pt"}

HTTP_200_OK == 200

HTTP_400_BAD_REQUEST == 400

HTTP_401_UNAUTHORIZED == 401

HTTP_500_INTERNAL_SERVER_ERROR == 500

(* Bounds of the model *)

\* longest batch whose items are enumerated freely
MaxBatch == 3

\* number of names under TEMP_DIR
MaxChildren == 2

\* number of runs of cleanup_old_files
MaxSweeps == 2

\* number of times the clock advances by the interval of the job
MaxTicks == 1

\* number of calls of start_scheduler and shutdown_scheduler
MaxCalls == 3

----------------------------------------------------------------------------
(* Strings *)

None == <<"None">>

Whitespace == {" ", "\n", "\t"}

\* str.lower() on one character (the alphabet of the model's file names)
LowerChar(c) ==
    CASE c = "A" -> "a"
      [] c = "M" -> "m"
      [] c = "P" -> "p"
      [] c = "E" -> "e"
      [] c = "G" -> "g"
      [] OTHER -> c

Lower(s) == [k \in 1..Len(s) |-> LowerChar(s[k])]

\* str.startswith
StartsWith(s, prefix) ==
    /\ Len(s) >= Len(prefix)
    /\ SubSeq(s, 1, Len(prefix)) = prefix

\* position of the last "." of s, 0 when there is none
LastDot(s) ==
    LET ds == {k \in 1..Len(s) : s[k] = "."}
    IN  IF ds = {} THEN 0 ELSE CHOOSE k \in ds : \A j \in ds : j <= k

\* position of the last "/" of s, 0 when there is none
LastSep(s) ==
    LET ps == {k \in 1..Len(s) : s[k] = "/"}
    IN  IF ps = {} THEN 0 ELSE CHOOSE k \in ps : \A j \in ps : j <= k

\* the last component of a path: os.path.basename, pathlib.Path(name).name
Basename(s) == SubSeq(s, LastSep(s) + 1, Len(s))

\* the components of a path between its "/"
RECURSIVE SplitPath(_)
SplitPath(s) ==
    LET ps == {k \in 1..Len(s) : s[k] = "/"}
        k == CHOOSE p \in ps : \A j \in ps : p <= j
    IN  IF ps = {} THEN <<s>>
        ELSE <<SubSeq(s, 1, k - 1)>> \o SplitPath(SubSeq(s, k + 1, Len(s)))

\* the directory reached from directory at (a sequence of names below "/")
\* by following the components: ".." goes up, "." and "" stay
RECURSIVE Follow(_, _)
Follow(at, components) ==
    IF components = <<>> THEN at
    ELSE LET c == Head(components)
             next == IF c = <<".", ".">>
                     THEN (IF at = <<>> THEN at ELSE SubSeq(at, 1, Len(at) - 1))
                     ELSE IF c = <<".">> \/ c = <<>> THEN at
                     ELSE Append(at, c)
         IN  Follow(next, Tail(components))

\* the dot at position k separates an extension: some character before it
\* is not a dot (".mp3" and "..mp3" have no extension)
SplitsAt(s, k) == k > 0 /\ \E j \in 1..(k - 1) : s[j] # "."

\* a splitext that cuts at the first dot instead of the last
SplitextRoot_FirstDot(s) ==
    LET n == Basename(s)
        ds == {k \in 1..Len(n) : n[k] = "."}
        k == IF ds = {} THEN 0 ELSE CHOOSE d \in ds : \A j \in ds : d <= j
    IN  IF SplitsAt(n, k) THEN SubSeq(s, 1, LastSep(s) + k - 1) ELSE s

\* os.path.splitext(name)[0]: the extension is looked for in the last
\* component
SplitextRoot(s) ==
    LET n == Basename(s)
        k == LastDot(n)
    IN  IF SplitsAt(n, k) THEN SubSeq(s, 1, LastSep(s) + k - 1) ELSE s

\* pathlib.Path(name).suffix, with name the last component:
\* "i = name.rfind('.'); if 0 < i < len(name) - 1: return name[i:]"
\* (".mp3" and "a." have the empty suffix, "..mp3" has the suffix ".mp3")
Suffix(s) ==
    LET n == Basename(s)
        k == LastDot(n)
    IN  IF k > 1 /\ k < Len(n) THEN SubSeq(n, k, Len(n)) ELSE <<>>

RECURSIVE LStrip(_)
LStrip(s) ==
    IF s # <<>> /\ Head(s) \in Whitespace THEN LStrip(Tail(s)) ELSE s

RECURSIVE RStrip(_)
RStrip(s) ==
    IF s # <<>> /\ s[Len(s)] \in Whitespace
    THEN RStrip(SubSeq(s, 1, Len(s) - 1))
    ELSE s

\* str.strip()
Strip(s) == RStrip(LStrip(s))

Bearer == <<"B", "e", "a", "r", "e", "r", " ">>

ErrorPrefix == <<"e", "r", "r", "o", "r", "_">>

TxtExt == <<".", "t", "x", "t">>

----------------------------------------------------------------------------
(* Values *)

\* an UploadFile: filename (Optional[str]), declared media type, size in
\* bytes and an identifier of its bytes
Upload(fn, ct, sz, d) ==
    [filename |-> fn, content_type |-> ct, size |-> sz, data |-> d]

\* a message built by an f-string: the fixed text and its two arguments
Message(m, fn, a) == [msg |-> m, filename |-> fn, arg |-> a]

\* the falsy return value of validate_file
NoError == Message("", <<>>, <<>>)

\* fastapi.HTTPException(status_code, detail)
HTTPException(st, m, lim, errs) ==
    [status |-> st, detail |-> [msg |-> m, limit |-> lim, errors |-> errs]]

NoResponse == HTTPException(0, "", 0, <<>>)

\* FileResponse(path=zip_path, media_type="application/zip", ...)
FileResponse == HTTPException(HTTP_200_OK, "transcriptions.zip", 0, <<>>)

\* no response: asyncio.CancelledError leaves the handler
Cancelled == HTTPException(0, "CancelledError", 0, <<>>)

\* an element of the list that asyncio.gather(..., return_exceptions=True)
\* returns for the transcription tasks
Pending == [kind |-> "pending", text |-> <<>>, exc |-> ""]

StrResult(t) == [kind |-> "str", text |-> t, exc |-> ""]

ExcResult(e) == [kind |-> "exc", text |-> <<>>, exc |-> e]

\* the exception classes that `isinstance(result, Exception)` accepts
ExceptionClasses ==
    {"FileNotFoundError", "ValueError", "AuthenticationError",
     "APIConnectionError", "APIError"}

\* TEMP_DIR = "/tmp/transcriber_runs" as the names below "/"
TEMP_DIR ==
    << <<"t", "m", "p">>,
       <<"t", "r", "a", "n", "s", "c", "r", "i", "b", "e", "r", "_", "r", "u",
         "n", "s">> >>

\* the directory in which os.path.join(run_path, name) lies once the
\* operating system has resolved it: run_path itself, or the name of
\* another place.  os.path.join drops run_path for a name that starts with
\* "/"; run_path is TEMP_DIR/<run_path>
dirname(run_path, name) ==
    LET own == Append(TEMP_DIR, <<run_path>>)
        components == SplitPath(name)
        start == IF name # <<>> /\ Head(name) = "/" THEN <<>> ELSE own
        at == Follow(start, SubSeq(components, 1, Len(components) - 1))
    IN  IF at = own THEN run_path
        ELSE IF StartsWith(at, own) THEN "<below run_path>"
        ELSE IF at = TEMP_DIR THEN "/tmp/transcriber_runs"
        ELSE IF StartsWith(at, TEMP_DIR) THEN "<below another run directory>"
        ELSE "<outside TEMP_DIR>"

\* os.path.join(run_path, name): the directory the file lies in and its
\* name there
os_path_join(run_path, name) ==
    [dir |-> dirname(run_path, name), name |-> Basename(name)]

NoPath == os_path_join("", <<>>)

\* str(uuid.uuid4()) of the request
run_id == "run1"

----------------------------------------------------------------------------
(* validate_request_data *)

\* validate_request_data with the file count compared off by one
validate_request_data_OffByOne(fs, lang, auth) ==
    IF Len(fs) > MAX_FILES_LIMIT + 1
    THEN [raised |-> TRUE, api_key |-> <<>>,
          exc |-> HTTPException(HTTP_400_BAD_REQUEST,
                     "A maximum of {MAX_FILES_LIMIT} files can be processed at once.",
                     MAX_FILES_LIMIT, <<>>)]
    ELSE IF lang \notin SUPPORTED_LANGUAGES
    THEN [raised |-> TRUE, api_key |-> <<>>,
          exc |-> HTTPException(HTTP_400_BAD_REQUEST,
                     "Unsupported language selected.", 0, <<>>)]
    ELSE IF auth = None \/ auth = <<>> \/ ~StartsWith(auth, Bearer)
    THEN [raised |-> TRUE, api_key |-> <<>>,
          exc |-> HTTPException(HTTP_400_BAD_REQUEST,
                     "API key must be provided in the Authorization header as 'Bearer <api_key>'",
                     0, <<>>)]
    ELSE [raised |-> FALSE, api_key |-> SubSeq(auth, 8, Len(auth)),
          exc |-> NoResponse]

\* validate_request_data without the language check
validate_request_data_AnyLanguage(fs, lang, auth) ==
    IF Len(fs) > MAX_FILES_LIMIT
    THEN [raised |-> TRUE, api_key |-> <<>>,
          exc |-> HTTPException(HTTP_400_BAD_REQUEST,
                     "A maximum of {MAX_FILES_LIMIT} files can be processed at once.",
                     MAX_FILES_LIMIT, <<>>)]
    ELSE IF auth = None \/ auth = <<>> \/ ~StartsWith(auth, Bearer)
    THEN [raised |-> TRUE, api_key |-> <<>>,
          exc |-> HTTPException(HTTP_400_BAD_REQUEST,
                     "API key must be provided in the Authorization header as 'Bearer <api_key>'",
                     0, <<>>)]
    ELSE [raised |-> FALSE, api_key |-> SubSeq(auth, 8, Len(auth)),
          exc |-> NoResponse]

\* validate_request_data that only checks that the header is present
validate_request_data_AnyScheme(fs, lang, auth) ==
    IF Len(fs) > MAX_FILES_LIMIT
    THEN [raised |-> TRUE, api_key |-> <<>>,
          exc |-> HTTPException(HTTP_400_BAD_REQUEST,
                     "A maximum of {MAX_FILES_LIMIT} files can be processed at once.",
                     MAX_FILES_LIMIT, <<>>)]
    ELSE IF lang \notin SUPPORTED_LANGUAGES
    THEN [raised |-> TRUE, api_key |-> <<>>,
          exc |-> HTTPException(HTTP_400_BAD_REQUEST,
                     "Unsupported language selected.", 0, <<>>)]
    ELSE IF auth = None \/ auth = <<>>
    THEN [raised |-> TRUE, api_key |-> <<>>,
          exc |-> HTTPException(HTTP_400_BAD_REQUEST,
                     "API key must be provided in the Authorization header as 'Bearer <api_key>'",
                     0, <<>>)]
    ELSE [raised |-> FALSE, api_key |-> SubSeq(auth, 8, Len(auth)),
          exc |-> NoResponse]

validate_request_data(fs, lang, auth) ==
    IF Len(fs) > MAX_FILES_LIMIT
    THEN [raised |-> TRUE, api_key |-> <<>>,
          exc |-> HTTPException(HTTP_400_BAD_REQUEST,
                     "A maximum of {MAX_FILES_LIMIT} files can be processed at once.",
                     MAX_FILES_LIMIT, <<>>)]
    ELSE IF lang \notin SUPPORTED_LANGUAGES
    THEN [raised |-> TRUE, api_key |-> <<>>,
          exc |-> HTTPException(HTTP_400_BAD_REQUEST,
                     "Unsupported language selected.", 0, <<>>)]
    ELSE IF auth = None \/ auth = <<>> \/ ~StartsWith(auth, Bearer)
    THEN [raised |-> TRUE, api_key |-> <<>>,
          exc |-> HTTPException(HTTP_400_BAD_REQUEST,
                     "API key must be provided in the Authorization header as 'Bearer <api_key>'",
                     0, <<>>)]
    ELSE [raised |-> FALSE, api_key |-> SubSeq(auth, 8, Len(auth)),
          exc |-> NoResponse]

----------------------------------------------------------------------------
(* validate_file *)

Mp3Ext == <<".", "m", "p", "3">>

MpegExt == <<".", "m", "p", "e", "g">>

\* validate_file trusting the declared media type before the extension
validate_file_MimeFirst(file) ==
    IF file.filename = None
    THEN Message("File has no filename", <<>>, <<>>)
    ELSE IF file.content_type \in {"audio/mpeg", "audio/mp3"}
    THEN (IF file.size > MAX_FILE_SIZE
          THEN Message("File {filename} exceeds maximum size of {MAX_FILE_SIZE / (1024 * 1024)} MB",
                       file.filename, <<"100.0">>)
          ELSE NoError)
    ELSE IF Lower(Suffix(file.filename)) # Mp3Ext
    THEN Message("File {filename} has invalid MIME type: {content_type}",
                 file.filename, <<file.content_type>>)
    ELSE IF file.size > MAX_FILE_SIZE
    THEN Message("File {filename} exceeds maximum size of {MAX_FILE_SIZE / (1024 * 1024)} MB",
                 file.filename, <<"100.0">>)
    ELSE NoError

\* validate_file without the leniency for .mp3 names
validate_file_StrictMime(file) ==
    IF file.filename = None
    THEN Message("File has no filename", <<>>, <<>>)
    ELSE IF Lower(Suffix(file.filename)) \notin {Mp3Ext, MpegExt}
    THEN Message("File {filename} has invalid extension: {file_extension}",
                 file.filename, Lower(Suffix(file.filename)))
    ELSE IF file.content_type \notin {"audio/mpeg", "audio/mp3"}
    THEN Message("File {filename} has invalid MIME type: {content_type}",
                 file.filename, <<file.content_type>>)
    ELSE IF file.size > MAX_FILE_SIZE
    THEN Message("File {filename} exceeds maximum size of {MAX_FILE_SIZE / (1024 * 1024)} MB",
                 file.filename, <<"100.0">>)
    ELSE NoError

validate_file(file) ==
    IF file.filename = None
    THEN Message("File has no filename", <<>>, <<>>)
    ELSE IF Lower(Suffix(file.filename)) \notin {Mp3Ext, MpegExt}
    THEN Message("File {filename} has invalid extension: {file_extension}",
                 file.filename, Lower(Suffix(file.filename)))
    ELSE IF /\ file.content_type \notin {"audio/mpeg", "audio/mp3"}
            /\ Lower(Suffix(file.filename)) # Mp3Ext
    THEN Message("File {filename} has invalid MIME type: {content_type}",
                 file.filename, <<file.content_type>>)
    ELSE IF file.size > MAX_FILE_SIZE
    THEN Message("File {filename} exceeds maximum size of {MAX_FILE_SIZE / (1024 * 1024)} MB",
                 file.filename, <<"100.0">>)
    ELSE NoError

----------------------------------------------------------------------------
(* save_file *)

\* a save task that has not run yet
PendingSave == [kind |-> "pending", file_path |-> NoPath, index |-> 0 - 1,
                filename |-> <<>>]

\* the tuple (None, None)
NoneNone == [kind |-> "tuple", file_path |-> NoPath, index |-> 0 - 1,
             filename |-> <<>>]

\* the tuple (file_path, (index, output_filename))
SavedTuple(path, index, name) ==
    [kind |-> "tuple", file_path |-> path, index |-> index, filename |-> name]

\* a save_file that does not look at the number of bytes written
save_file_NoEmptyCheck(file, run_path, index, fault) ==
    IF file.filename = None THEN NoneNone
    ELSE IF fault THEN NoneNone
    ELSE SavedTuple(os_path_join(run_path, file.filename), index,
                    SplitextRoot(file.filename) \o TxtExt)

\* what save_file returns; fault: open() or a write raises
save_file(file, run_path, index, fault) ==
    IF file.filename = None THEN NoneNone
    ELSE IF fault THEN NoneNone
    ELSE IF file.size = 0 THEN NoneNone
    ELSE SavedTuple(os_path_join(run_path, file.filename), index,
                    SplitextRoot(file.filename) \o TxtExt)

\* open(path, "wb") followed by the writes: the file at path is replaced
write_file(dk, path, data, size) ==
    {f \in dk : f.path # path} \cup {[path |-> path, data |-> data, size |-> size]}

\* open(file_path, "wb"): the file exists and is empty
open_wb(dk, file, run_path) ==
    IF file.filename = None THEN dk
    ELSE write_file(dk, os_path_join(run_path, file.filename), "", 0)

\* what the copy loop of save_file leaves on disk
save_file_disk(dk, file, run_path, fault) ==
    IF file.filename = None \/ fault THEN dk
    ELSE write_file(dk, os_path_join(run_path, file.filename), file.data, file.size)

----------------------------------------------------------------------------
(* process_files *)

\* the validation loop: the errors of the rejected files, in order
RECURSIVE collect_validation_errors(_)
collect_validation_errors(fs) ==
    IF fs = <<>> THEN <<>>
    ELSE LET error == validate_file(Head(fs))
         IN  (IF error # NoError THEN <<error>> ELSE <<>>)
             \o collect_validation_errors(Tail(fs))

\* the validation loop: one save task per accepted file, carrying its index
RECURSIVE collect_save_tasks(_, _)
collect_save_tasks(fs, index) ==
    IF index >= Len(fs) THEN <<>>
    ELSE (IF validate_file(fs[index + 1]) = NoError
          THEN <<[file |-> fs[index + 1], index |-> index]>>
          ELSE <<>>)
         \o collect_save_tasks(fs, index + 1)

\* the all-rejected check without the truthiness guard
no_valid_files_NoGuard(errors, fs) == Len(errors) = Len(fs)

\* "if validation_errors and len(validation_errors) == len(files)"
no_valid_files(errors, fs) == errors # <<>> /\ Len(errors) = Len(fs)

\* the save results that are (file_path, output_info) with both truthy
successful_saves(srs) ==
    SelectSeq(srs, LAMBDA r : r.kind = "tuple" /\ r.file_path # NoPath)

collect_saved_files(srs) ==
    LET ok == successful_saves(srs)
    IN  [k \in 1..Len(ok) |-> ok[k].file_path]

collect_output_filenames(srs) ==
    LET ok == successful_saves(srs)
        last(i) == CHOOSE k \in 1..Len(ok) :
                       /\ ok[k].index = i
                       /\ \A j \in 1..Len(ok) : ok[j].index = i => j <= k
    IN  [i \in {ok[k].index : k \in 1..Len(ok)} |-> ok[last(i)].filename]

----------------------------------------------------------------------------
(* asyncio.gather *)

\* a gather that returns as soon as one of its tasks is done
gather_returned_First(states) ==
    states = <<>> \/ \E t \in 1..Len(states) : states[t] = "done"

\* "await asyncio.gather(*tasks, return_exceptions=True)" returns when every
\* task is done
gather_returned(states) == \A t \in 1..Len(states) : states[t] = "done"

\* task t completes while a task passed to gather before it has not
\* (history only)
overtakes(states, t) == \E u \in 1..(t - 1) : states[u] # "done"

\* results kept in the order in which the tasks complete
store_result_AsCompleted(rs, j, r) ==
    LET k == 1 + Cardinality({i \in 1..Len(rs) : rs[i].kind # "pending"})
    IN  [rs EXCEPT ![k] = r]

\* gather returns the results in the order of the awaitables passed to it
store_result(rs, j, r) == [rs EXCEPT ![j] = r]

----------------------------------------------------------------------------
(* transcribe_file *)

\* what the provider can answer for one file
Texts == { <<"h", "i">>, <<" ", "y", "o", "\n">> }

ProviderErrors == {"AuthenticationError", "APIConnectionError", "APIError"}

ProviderOutcomes ==
    {StrResult(t) : t \in Texts} \cup {ExcResult(e) : e \in ProviderErrors}

transcribe_file(dk, file_path, provider) ==
    IF ~\E f \in dk : f.path = file_path
    THEN ExcResult("FileNotFoundError")
    ELSE IF (CHOOSE f \in dk : f.path = file_path).size = 0
    THEN ExcResult("ValueError")
    ELSE provider

----------------------------------------------------------------------------
(* create_zip_response *)

\* output_filenames.get(i, f"file_{i}.txt")
dict_get(ofn, i) ==
    IF i \in DOMAIN ofn THEN ofn[i]
    ELSE <<"f", "i", "l", "e", "_", ToString(i)>> \o TxtExt

\* the loop body writing an error entry only for a position that is a key
\* of output_filenames
zip_entry_KeyedErrors(i, result, ofn) ==
    IF result.kind = "exc" /\ result.exc \in ExceptionClasses /\ i \in DOMAIN ofn
    THEN <<[name |-> ErrorPrefix \o ofn[i],
            content |-> <<"Transcription failed: ", result.exc>>]>>
    ELSE IF result.kind = "str" /\ i \in DOMAIN ofn
    THEN <<[name |-> ofn[i], content |-> Strip(result.text)]>>
    ELSE <<>>

\* one iteration of the loop over enumerate(results): the entries it writes
zip_entry(i, result, ofn) ==
    IF result.kind = "exc" /\ result.exc \in ExceptionClasses
    THEN <<[name |-> ErrorPrefix \o dict_get(ofn, i),
            content |-> <<"Transcription failed: ", result.exc>>]>>
    ELSE IF result.kind = "str" /\ i \in DOMAIN ofn
    THEN <<[name |-> ofn[i], content |-> Strip(result.text)]>>
    ELSE <<>>

RECURSIVE zip_entries(_, _, _)
zip_entries(rs, ofn, i) ==
    IF i >= Len(rs) THEN <<>>
    ELSE zip_entry(i, rs[i + 1], ofn) \o zip_entries(rs, ofn, i + 1)

create_zip_response(rs, ofn) == zip_entries(rs, ofn, 0)

ZipName == <<"t", "r", "a", "n", "s", "c", "r", "i", "p", "t", "i", "o", "n", "s",
             ".", "z", "i", "p">>

----------------------------------------------------------------------------
(* handle_transcription: the except clauses and the finally block *)

\* the HTTPException that leaves the handler for an exception raised in the
\* try block; asyncio.CancelledError is a BaseException, which no clause
\* catches
handler_except(e) ==
    IF e.class = "CancelledError"
    THEN Cancelled
    ELSE IF e.class \in {"AuthenticationError", "APIError", "APIConnectionError"}
    THEN HTTPException(HTTP_401_UNAUTHORIZED, "OpenAI API Error: {e}", 0, <<>>)
    ELSE IF e.class = "HTTPException"
    THEN e.http
    ELSE HTTPException(HTTP_500_INTERNAL_SERVER_ERROR, "Processing failed: {e}",
                       0, <<>>)

Raised(class, http) == [class |-> class, http |-> http]

\* the cleanup placed in "except Exception" in place of "finally"
runs_finally_ExceptionOnly(e) == e.class # "CancelledError"

\* lines 401-411: the finally block runs for whatever leaves the try
\* statement
runs_finally(e) == TRUE

\* a finally block that leaves the run directory in place
finally_dirs_Keep(ds, needed, run_path) == ds

\* shutil.rmtree(run_path, ignore_errors=True), guarded by cleanup_needed
finally_dirs(ds, needed, run_path) == IF needed THEN ds \ {run_path} ELSE ds

finally_disk(dk, needed, run_path) ==
    IF needed THEN {f \in dk : f.path.dir # run_path} ELSE dk

----------------------------------------------------------------------------
(* The requests of the model *)

Uploads ==
    { Upload(<<"a", ".", "m", "p", "3">>, "audio/mpeg", 3, "A"),
      Upload(<<"b", ".", "w", "a", "v">>, "audio/wav", 3, "B"),
      Upload(<<"c", ".", "m", "p", "e", "g">>, "audio/mpeg", 3, "C"),
      Upload(<<"e", ".", "m", "p", "3">>, "audio/mpeg", 0, ""),
      Upload(None, "audio/mpeg", 3, "N") }

Batches ==
    UNION {[1..n -> Uploads] : n \in 0..MaxBatch}
    \cup {[k \in 1..(MAX_FILES_LIMIT + 1) |-> u] : u \in Uploads}

Languages == {"en", "pt", "fr"}

Authorizations ==
    { None,
      <<>>,
      <<"B", "e", "a", "r", "e", "r", " ", "k">>,
      <<"B", "a", "s", "i", "c", " ", "k">> }

NoOutcome == [stage |-> "none", text |-> <<>>, reason |-> NoError]

\* tasks.py before start_scheduler: the clock at 0, no TEMP_DIR, no sweep
\* running, the scheduler stopped without jobs
NoSweep == [pc |-> "idle", now |-> 0, listing |-> {}, run |-> 0,
            nows |-> <<>>, before |-> <<>>, fresh |-> {}, fresh_at_start |-> <<>>,
            rmtree_calls |-> <<>>, deleted |-> <<>>, cur |-> 0,
            caught |-> <<>>, after_error |-> <<>>, raised |-> "",
            examined |-> <<>>]

\* no request has reached its finally block
NoCleanup == <<>>

NoScheduler == [state |-> "stopped", jobs |-> 0, raised |-> "",
                shutdown_calls |-> 0, call |-> "", calls |-> 0,
                prev |-> "stopped", ever_started |-> FALSE]

NoTempRoot == [exists |-> FALSE, children |-> <<>>]

ReaperIdle ==
    /\ clock = 0
    /\ temp_root = NoTempRoot
    /\ sweep = NoSweep
    /\ scheduler = NoScheduler
    /\ cleanup = NoCleanup

\* the locals of handle_transcription before its first statement
HandlerIdle ==
    /\ tasks = [save |-> <<>>, transcribe |-> <<>>, reordered |-> FALSE,
                write_raised |-> {}]
    /\ api_key = <<>>
    /\ dirs = {}
    /\ disk = {}
    /\ cleanup_needed = FALSE
    /\ validation_errors = <<>>
    /\ save_tasks = <<>>
    /\ save_results = <<>>
    /\ saved_files = <<>>
    /\ output_filenames = <<>>
    /\ results = <<>>
    /\ archive = <<>>
    /\ response = NoResponse
    /\ called = {}
    /\ faults = {}
    /\ outcome = [i \in 0..(Len(files) - 1) |-> NoOutcome]

Init ==
    /\ files \in Batches
    /\ language \in Languages
    /\ authorization \in Authorizations
    /\ pc = "start"
    /\ HandlerIdle
    /\ ReaperIdle

request == <<files, language, authorization>>

----------------------------------------------------------------------------
(* handle_transcription, step by step *)

\* lines 316-323: validate_request_data raises before anything is created
ValidateRequest ==
    /\ pc = "start"
    /\ LET r == validate_request_data(files, language, authorization)
       IN  IF r.raised
           THEN /\ response' = r.exc
                /\ pc' = "done"
                /\ api_key' = api_key
           ELSE /\ api_key' = r.api_key
                /\ pc' = "makedirs"
                /\ response' = response
    /\ UNCHANGED <<request, dirs, disk, cleanup_needed, validation_errors,
                   save_tasks, save_results, saved_files, output_filenames,
                   results, archive, called, faults, outcome>>
    /\ UNCHANGED tasks
    /\ UNCHANGED reaperVars

\* lines 325-331: the run directory is created and the cleanup flag is set
MakeRunDir ==
    /\ pc = "makedirs"
    /\ dirs' = dirs \cup {run_id}
    /\ cleanup_needed' = TRUE
    /\ called' = called \cup {"makedirs"}
    /\ pc' = "create_client"
    /\ UNCHANGED <<request, api_key, disk, validation_errors, save_tasks,
                   save_results, saved_files, output_filenames, results,
                   archive, response, faults, outcome>>
    /\ UNCHANGED tasks
    /\ UNCHANGED reaperVars

\* lines 333-347: create_client; its failure raises outside the try block,
\* so neither an except clause nor the finally block runs
CreateClient ==
    /\ pc = "create_client"
    /\ \E client_creation_error \in BOOLEAN :
           IF client_creation_error
           THEN /\ response' = HTTPException(HTTP_400_BAD_REQUEST,
                                   "Invalid OpenAI API Key format.", 0, <<>>)
                /\ pc' = "done"
           ELSE /\ response' = response
                /\ pc' = "process_files"
    /\ called' = called \cup {"create_client"}
    /\ faults' = faults \cup (IF pc' = "done" THEN {"create_client"} ELSE {})
    /\ UNCHANGED <<request, api_key, dirs, disk, cleanup_needed,
                   validation_errors, save_tasks, save_results, saved_files,
                   output_filenames, results, archive, outcome>>
    /\ UNCHANGED tasks
    /\ UNCHANGED reaperVars

\* process_files, lines 257-282: the validation loop and the all-rejected
\* check; its HTTPException passes through "except HTTPException: raise" and
\* the finally block
ProcessFilesValidate ==
    /\ pc = "process_files"
    /\ LET errors == collect_validation_errors(files)
       IN  /\ validation_errors' = errors
           /\ save_tasks' = collect_save_tasks(files, 0)
           /\ outcome' = [i \in DOMAIN outcome |->
                            LET error == validate_file(files[i + 1])
                            IN  IF error # NoError
                                THEN [stage |-> "rejected", text |-> <<>>,
                                      reason |-> error]
                                ELSE [outcome[i] EXCEPT !.stage = "accepted"]]
           /\ IF no_valid_files(errors, files)
              THEN /\ response' = handler_except(Raised("HTTPException",
                                     HTTPException(HTTP_400_BAD_REQUEST,
                                         "No valid MP3 files were provided. Errors: ",
                                         0, errors)))
                   /\ dirs' = finally_dirs(dirs, cleanup_needed, run_id)
                   /\ disk' = finally_disk(disk, cleanup_needed, run_id)
                   /\ save_results' = save_results
                   /\ tasks' = tasks
                   /\ pc' = "done"
              ELSE /\ save_results' = [t \in 1..Len(save_tasks') |-> PendingSave]
                   /\ tasks' = [tasks EXCEPT !.save =
                                    [t \in 1..Len(save_tasks') |-> "pending"]]
                   /\ pc' = "saving"
                   /\ UNCHANGED <<response, dirs, disk>>
    /\ UNCHANGED reaperVars
    /\ called' = called \cup {"process_files"}
                       \cup (IF files # <<>> THEN {"validate_file"} ELSE {})
    /\ UNCHANGED <<request, api_key, cleanup_needed, saved_files,
                   output_filenames, results, archive, faults>>

\* a save_file coroutine of the gather of line 287 runs up to its first
\* "await file.read": the file is opened for writing
SaveStart(t) ==
    /\ pc = "saving"
    /\ t \in 1..Len(save_tasks)
    /\ tasks.save[t] = "pending"
    /\ tasks' = [tasks EXCEPT !.save[t] = "writing"]
    /\ disk' = open_wb(disk, save_tasks[t].file, run_id)
    /\ called' = called \cup {"save_file"}
    /\ UNCHANGED <<request, pc, api_key, dirs, cleanup_needed,
                   validation_errors, save_tasks, save_results, saved_files,
                   output_filenames, results, archive, response, faults,
                   outcome>>
    /\ UNCHANGED reaperVars

\* the save_file coroutine copies the chunks and returns, or a read or a
\* write raises and it returns (None, None)
SaveFinish(t) ==
    /\ pc = "saving"
    /\ t \in 1..Len(save_tasks)
    /\ tasks.save[t] = "writing"
    /\ \E fault \in BOOLEAN :
           LET task == save_tasks[t]
               r == save_file(task.file, run_id, task.index, fault)
           IN  /\ save_results' = [save_results EXCEPT ![t] = r]
               /\ disk' = save_file_disk(disk, task.file, run_id, fault)
               /\ outcome' = [outcome EXCEPT ![task.index].stage =
                                 IF r.file_path # NoPath THEN "saved"
                                 ELSE "save_failed"]
               /\ faults' = faults \cup (IF fault THEN {"save_file"} ELSE {})
               /\ tasks' = [tasks EXCEPT
                               !.save[t] = "done",
                               !.reordered = @ \/ overtakes(tasks.save, t),
                               !.write_raised = IF fault THEN @ \cup {t} ELSE @]
    /\ UNCHANGED <<request, pc, api_key, dirs, cleanup_needed,
                   validation_errors, save_tasks, saved_files,
                   output_filenames, results, archive, response, called>>
    /\ UNCHANGED reaperVars

\* process_files, lines 289-305, and lines 357-362: the gather of the saves
\* has returned; the results are collected and the transcription tasks made
CollectSaves ==
    /\ pc = "saving"
    /\ gather_returned(tasks.save)
    /\ saved_files' = collect_saved_files(save_results)
    /\ output_filenames' = collect_output_filenames(save_results)
    /\ results' = [j \in 1..Len(collect_saved_files(save_results)) |-> Pending]
    /\ tasks' = [tasks EXCEPT !.transcribe =
                    [j \in 1..Len(collect_saved_files(save_results)) |-> "pending"]]
    /\ pc' = "transcribing"
    /\ UNCHANGED <<request, api_key, dirs, disk, cleanup_needed,
                   validation_errors, save_tasks, save_results, archive,
                   response, called, faults, outcome>>
    /\ UNCHANGED reaperVars

\* the batch index of the j-th saved file (history only: the code keeps the
\* path, not the index)
SourceIndex(j) == successful_saves(save_results)[j].index

\* what the history records for a resolved transcription
TranscriptOutcome(r) ==
    [stage |-> IF r.kind = "str" THEN "transcribed" ELSE "transcribe_failed",
     text |-> r.text,
     reason |-> Message(r.exc, <<>>, <<>>)]

\* a transcribe_file coroutine of the gather of line 365 runs up to its
\* "await asyncio.to_thread" (lines 41-76), or raises before it
TranscribeStart(j) ==
    /\ pc = "transcribing"
    /\ j \in 1..Len(results)
    /\ tasks.transcribe[j] = "pending"
    /\ LET r == transcribe_file(disk, saved_files[j], Pending)
       IN  IF r.kind = "exc"
           THEN /\ results' = store_result(results, j, r)
                /\ outcome' = [outcome EXCEPT ![SourceIndex(j)] = TranscriptOutcome(r)]
                /\ tasks' = [tasks EXCEPT !.transcribe[j] = "done",
                                          !.reordered = @ \/ overtakes(tasks.transcribe, j)]
           ELSE /\ tasks' = [tasks EXCEPT !.transcribe[j] = "running"]
                /\ UNCHANGED <<results, outcome>>
    /\ called' = called \cup {"transcribe_file"}
    /\ UNCHANGED <<request, pc, api_key, dirs, disk, cleanup_needed,
                   validation_errors, save_tasks, save_results, saved_files,
                   output_filenames, archive, response, faults>>
    /\ UNCHANGED reaperVars

\* the provider call made in the thread returns or raises (lines 71-99);
\* gather keeps the value or the exception at the position of the task
TranscribeFinish(j) ==
    /\ pc = "transcribing"
    /\ j \in 1..Len(results)
    /\ tasks.transcribe[j] = "running"
    /\ \E provider \in ProviderOutcomes :
           LET r == transcribe_file(disk, saved_files[j], provider)
           IN  /\ results' = store_result(results, j, r)
               /\ outcome' = [outcome EXCEPT ![SourceIndex(j)] = TranscriptOutcome(r)]
    /\ tasks' = [tasks EXCEPT !.transcribe[j] = "done",
                              !.reordered = @ \/ overtakes(tasks.transcribe, j)]
    /\ UNCHANGED <<request, pc, api_key, dirs, disk, cleanup_needed,
                   validation_errors, save_tasks, save_results, saved_files,
                   output_filenames, archive, response, called, faults>>
    /\ UNCHANGED reaperVars

\* lines 365-385 and 395-411: the gather of the transcriptions has returned;
\* the archive is written and returned, or writing it raises and the handler
\* answers 500 after the finally block has removed the run directory
CreateZip ==
    /\ pc = "transcribing"
    /\ gather_returned(tasks.transcribe)
    /\ \E fault \in BOOLEAN :
           IF fault
           THEN /\ response' = handler_except(Raised("OSError", NoResponse))
                /\ dirs' = finally_dirs(dirs, cleanup_needed, run_id)
                /\ disk' = finally_disk(disk, cleanup_needed, run_id)
                /\ faults' = faults \cup {"create_zip_response"}
                /\ UNCHANGED <<archive, cleanup_needed>>
           ELSE /\ archive' = create_zip_response(results, output_filenames)
                /\ disk' = write_file(disk, os_path_join(run_id, ZipName),
                                      "zip", 1)
                /\ cleanup_needed' = FALSE
                /\ response' = FileResponse
                /\ dirs' = finally_dirs(dirs, cleanup_needed', run_id)
                /\ faults' = faults
    /\ called' = called \cup {"create_zip_response"}
    /\ pc' = "done"
    /\ UNCHANGED <<request, api_key, validation_errors, save_tasks,
                   save_results, saved_files, output_filenames, results,
                   outcome>>
    /\ UNCHANGED tasks
    /\ UNCHANGED reaperVars

\* the task of the request is cancelled while it is suspended in one of the
\* two gathers (lines 287 and 365): gather cancels the coroutines that
\* have not finished, CancelledError is raised at the await when they have
\* ended, no except clause catches it and the finally block runs.  A gather
\* of no coroutines is done at once and its await does not suspend
Cancel ==
    /\ \/ pc = "saving" /\ save_tasks # <<>>
       \/ pc = "transcribing" /\ saved_files # <<>>
    /\ LET e == Raised("CancelledError", NoResponse)
           needed == cleanup_needed /\ runs_finally(e)
       IN  /\ response' = handler_except(e)
           /\ dirs' = finally_dirs(dirs, needed, run_id)
           /\ disk' = finally_disk(disk, needed, run_id)
    /\ tasks' = [tasks EXCEPT
                    !.save = [t \in DOMAIN tasks.save |->
                                 IF tasks.save[t] = "done" THEN "done"
                                 ELSE "cancelled"],
                    !.transcribe = [j \in DOMAIN tasks.transcribe |->
                                       IF tasks.transcribe[j] = "done" THEN "done"
                                       ELSE "cancelled"]]
    /\ faults' = faults \cup {"CancelledError"}
    /\ pc' = "done"
    /\ UNCHANGED <<request, api_key, cleanup_needed, validation_errors,
                   save_tasks, save_results, saved_files, output_filenames,
                   results, archive, called, outcome>>
    /\ UNCHANGED reaperVars

Next ==
    \/ ValidateRequest
    \/ MakeRunDir
    \/ CreateClient
    \/ ProcessFilesValidate
    \/ \E t \in 1..MAX_FILES_LIMIT : SaveStart(t)
    \/ \E t \in 1..MAX_FILES_LIMIT : SaveFinish(t)
    \/ CollectSaves
    \/ \E j \in 1..MAX_FILES_LIMIT : TranscribeStart(j)
    \/ \E j \in 1..MAX_FILES_LIMIT : TranscribeFinish(j)
    \/ CreateZip
    \/ Cancel

Spec == Init /\ [][Next]_vars

TypeOK ==
    /\ pc \in {"start", "makedirs", "create_client", "process_files",
               "saving", "transcribing", "done"}
    /\ dirs \subseteq {run_id}
    /\ cleanup_needed \in BOOLEAN
    /\ Len(save_results) = Len(save_tasks)
    /\ Len(results) = Len(saved_files)

----------------------------------------------------------------------------
(* validate_file and save_file on one upload: the body of the loop of      *)
(* process_files (lines 261-271) followed by the save task of that file,   *)
(* over a wider range of file names, media types and sizes                 *)

FileNames ==
    { <<"a", ".", "m", "p", "3">>,
      <<"A", ".", "M", "P", "3">>,
      <<"a", ".", "b", ".", "m", "p", "e", "g">>,
      <<"c", ".", "M", "p", "e", "g">>,
      <<"b", ".", "w", "a", "v">>,
      <<"a", ".", "m", "p", "3", ".", "t", "x", "t">>,
      <<"m", "p", "3">>,
      <<".", "m", "p", "3">>,
      <<"a", ".">>,
      <<>>,
      <<".", ".", "/", "x", ".", "m", "p", "3">>,
      <<".", ".", "/", ".", ".", "/", "x", ".", "m", "p", "3">>,
      <<"/", "x", ".", "m", "p", "3">>,
      None }

ContentTypes == {"audio/mpeg", "audio/mp3", "video/mpeg", "application/octet-stream"}

FileSizes == {0, 3, MAX_FILE_SIZE, MAX_FILE_SIZE + 1}

UploadSpace ==
    {Upload(fn, ct, sz, "D") : fn \in FileNames, ct \in ContentTypes, sz \in FileSizes}

InitUpload ==
    /\ files \in {<<u>> : u \in UploadSpace}
    /\ language = "en"
    /\ authorization = <<"B", "e", "a", "r", "e", "r", " ", "k">>
    /\ pc = "validate_file"
    /\ HandlerIdle
    /\ ReaperIdle

\* lines 264-268: validate_file returns; an error ends the iteration
ApplyValidateFile ==
    /\ pc = "validate_file"
    /\ LET error == validate_file(files[1])
       IN  /\ validation_errors' = <<error>>
           /\ pc' = IF error # NoError THEN "rejected" ELSE "save_file"
    /\ called' = called \cup {"validate_file"}
    /\ UNCHANGED <<request, api_key, dirs, disk, cleanup_needed, save_tasks,
                   save_results, saved_files, output_filenames, results,
                   archive, response, faults, outcome>>
    /\ UNCHANGED tasks
    /\ UNCHANGED reaperVars

\* line 271 and save_file, lines 159-195, for the accepted file
ApplySaveFile ==
    /\ pc = "save_file"
    /\ \E fault \in BOOLEAN :
           /\ save_results' = <<save_file(files[1], run_id, 0, fault)>>
           /\ disk' = save_file_disk(open_wb(disk, files[1], run_id), files[1],
                                     run_id, fault)
           /\ faults' = faults \cup (IF fault THEN {"save_file"} ELSE {})
    /\ called' = called \cup {"save_file"}
    /\ pc' = "returned"
    /\ UNCHANGED <<request, api_key, dirs, cleanup_needed, validation_errors,
                   save_tasks, saved_files, output_filenames, results,
                   archive, response, outcome>>
    /\ UNCHANGED tasks
    /\ UNCHANGED reaperVars

NextUpload == ApplyValidateFile \/ ApplySaveFile

SpecUpload == InitUpload /\ [][NextUpload]_vars

----------------------------------------------------------------------------
(* src/app/tasks.py: cleanup_old_files, start_scheduler, shutdown_scheduler *)

MAX_AGE_SECONDS == 5 * 60

\* the interval of the job: scheduler.add_job(..., "interval", minutes=1)
JobInterval == 60

ChildIds == 1..MaxChildren

\* a name under TEMP_DIR: nothing, a directory or a plain file, its st_mtime,
\* whether the operating system lets it be removed, the exception os.stat
\* raises for it ("" for none) and whether it has entries
Absent == [kind |-> "absent", mtime |-> 0, removable |-> TRUE, stat |-> "",
           entries |-> FALSE]

Directory(mtime, removable) ==
    [kind |-> "dir", mtime |-> mtime, removable |-> removable, stat |-> "",
     entries |-> TRUE]

\* a directory for which os.stat raises
Unreadable(mtime, error) ==
    [kind |-> "dir", mtime |-> mtime, removable |-> TRUE, stat |-> error,
     entries |-> TRUE]

PlainFile(mtime) == [kind |-> "file", mtime |-> mtime, removable |-> TRUE,
                     stat |-> "", entries |-> FALSE]

\* the clock when the model starts, and the st_mtime values of what is
\* found under TEMP_DIR then: 10 minutes old, exactly MAX_AGE_SECONDS old
\* and 1 minute old
StartOfTime == 600

Mtimes == {0, 300, 540}

Children ==
    {Absent, PlainFile(0)} \cup
    {Directory(mt, rm) : mt \in Mtimes, rm \in BOOLEAN}

\* a comparison with the start of the epoch in place of the sweep's clock
is_expired_Epoch(mtime, now) == mtime < 0 - MAX_AGE_SECONDS

\* "os.stat(dirpath).st_mtime < now - MAX_AGE_SECONDS" with <= for <
is_expired_Inclusive(mtime, now) == mtime <= now - MAX_AGE_SECONDS

\* "os.stat(dirpath).st_mtime < now - MAX_AGE_SECONDS"
is_expired(mtime, now) == mtime < now - MAX_AGE_SECONDS

\* lines 30-32: shutil.rmtree is called for this child
calls_rmtree(child, now) == child.kind = "dir" /\ is_expired(child.mtime, now)

\* shutil.rmtree, first part: the entries of the directory are unlinked,
\* which sets its st_mtime; nothing happens to a path that is not a
\* directory or that the operating system protects
rmtree_unlink(child, now) ==
    IF child.kind = "dir" /\ child.removable /\ child.entries
    THEN [child EXCEPT !.entries = FALSE, !.mtime = now]
    ELSE child

\* shutil.rmtree, second part: os.rmdir of the emptied directory
rmtree_rmdir(child) ==
    IF child.kind = "dir" /\ child.removable /\ ~child.entries
    THEN Absent
    ELSE child

\* shutil.rmtree(dirpath, ignore_errors=True): what is left of the child
rmtree(child) == rmtree_rmdir(rmtree_unlink(child, child.mtime))

\* what shutil.rmtree(path, ignore_errors=...) raises for the path as it is
\* when the call starts
rmtree_raises(child, ignore_errors) ==
    IF ignore_errors THEN ""
    ELSE IF child.kind = "absent" THEN "FileNotFoundError"
    ELSE IF ~child.removable THEN "PermissionError"
    ELSE ""

\* what os.stat(dirpath) raises at line 31: the directory may have been
\* removed since os.path.isdir saw it
stat_raises(child) ==
    IF child.kind = "absent" THEN "FileNotFoundError" ELSE child.stat

\* except clauses that let everything but FileNotFoundError through
except_clause_OnlyNotFound(error) ==
    IF error = "FileNotFoundError" THEN "" ELSE error

\* except clauses without the one for FileNotFoundError, and without the
\* catch-all that would take its place
except_clause_NoNotFound(error) ==
    IF error = "PermissionError" THEN ""
    ELSE IF error = "FileNotFoundError" THEN error
    ELSE ""

\* lines 34-40: what leaves the try statement of the loop body for an
\* exception raised inside it; all three clauses end the iteration normally
except_clause(error) ==
    IF error = "FileNotFoundError" THEN ""
    ELSE IF error = "PermissionError" THEN ""
    ELSE ""

\* a loop that ends after the first directory it removes
remaining_StopAfterRemoval(listing, c, called_rmtree) ==
    IF called_rmtree THEN {} ELSE listing \ {c}

\* "for dirname in os.listdir(TEMP_DIR)": the names still to be examined
remaining(listing, c, called_rmtree) == listing \ {c}

\* a shutdown_scheduler without the try/except
shutdown_scheduler_NoTry(sch) ==
    [sch EXCEPT !.state = "stopped",
                !.raised = IF sch.state = "stopped"
                           THEN "SchedulerNotRunningError" ELSE "",
                !.shutdown_calls = 1,
                !.call = "shutdown_scheduler",
                !.calls = @ + 1,
                !.prev = sch.state]

\* shutdown_scheduler, lines 51-57: scheduler.shutdown() raises
\* SchedulerNotRunningError when the scheduler is not running; the except
\* clause logs it
shutdown_scheduler(sch) ==
    [sch EXCEPT !.state = "stopped",
                !.raised = "",
                !.shutdown_calls = 1,
                !.call = "shutdown_scheduler",
                !.calls = @ + 1,
                !.prev = sch.state]

\* start_scheduler, lines 46-47: add_job registers one more job;
\* scheduler.start() raises SchedulerAlreadyRunningError when running
start_scheduler(sch) ==
    [sch EXCEPT !.state = "running",
                !.jobs = @ + 1,
                !.raised = IF sch.state = "running"
                           THEN "SchedulerAlreadyRunningError" ELSE "",
                !.shutdown_calls = 0,
                !.call = "start_scheduler",
                !.calls = @ + 1,
                !.prev = sch.state,
                !.ever_started = TRUE]

InitReaper ==
    /\ files = <<>>
    /\ language = "en"
    /\ authorization = None
    /\ pc = "no_request"
    /\ HandlerIdle
    /\ clock = StartOfTime
    /\ temp_root \in
           {NoTempRoot} \cup
           {[exists |-> TRUE, children |-> ch] : ch \in [ChildIds -> Children]}
    /\ sweep = NoSweep
    /\ scheduler = NoScheduler
    /\ cleanup = NoCleanup

\* lines 22-26: the job starts; without TEMP_DIR it returns at once
SweepStart ==
    /\ sweep.pc = "idle"
    /\ sweep.run < MaxSweeps
    /\ sweep' = [sweep EXCEPT
                    !.run = @ + 1,
                    !.now = clock,
                    !.nows = Append(@, clock),
                    !.before = temp_root.children,
                    !.fresh = {},
                    !.fresh_at_start = Append(@, sweep.fresh),
                    !.rmtree_calls = Append(@, {}),
                    !.deleted = Append(@, {}),
                    !.caught = Append(@, {}),
                    !.examined = Append(@, {}),
                    !.after_error = Append(@, {}),
                    !.listing = IF temp_root.exists
                                THEN {c \in DOMAIN temp_root.children :
                                         temp_root.children[c].kind # "absent"}
                                ELSE {},
                    !.pc = IF temp_root.exists THEN "loop" ELSE "idle"]
    /\ UNCHANGED <<clock, temp_root, scheduler>>
    /\ UNCHANGED cleanup
    /\ UNCHANGED handlerVars

\* lines 26-40: one iteration of the loop, for any name of the listing
SweepChild(c) ==
    /\ sweep.pc = "loop"
    /\ c \in sweep.listing
    /\ LET child == temp_root.children[c]
           error == IF child.kind = "dir" THEN stat_raises(child) ELSE ""
           hit == error = "" /\ calls_rmtree(child, sweep.now)
           left == IF hit THEN rmtree(child) ELSE child
       IN  /\ except_clause(error) = ""
           /\ temp_root' = [temp_root EXCEPT !.children[c] = left]
           /\ sweep' = [sweep EXCEPT
                           !.listing = remaining(sweep.listing, c, hit),
                           !.caught[sweep.run] =
                               IF error # "" THEN @ \cup {<<c, error>>} ELSE @,
                           !.examined[sweep.run] = @ \cup {c},
                           !.rmtree_calls[sweep.run] =
                               IF hit THEN @ \cup {c} ELSE @,
                           !.deleted[sweep.run] =
                               IF left # child THEN @ \cup {c} ELSE @]
    /\ UNCHANGED <<clock, scheduler>>
    /\ UNCHANGED cleanup
    /\ UNCHANGED handlerVars

\* the loop is exhausted and cleanup_old_files returns
SweepEnd ==
    /\ sweep.pc = "loop"
    /\ sweep.listing = {}
    /\ sweep' = [sweep EXCEPT !.pc = "idle"]
    /\ UNCHANGED <<clock, temp_root, scheduler>>
    /\ UNCHANGED cleanup
    /\ UNCHANGED handlerVars

\* time passes by one interval of the job
Tick ==
    /\ clock < StartOfTime + MaxTicks * JobInterval
    /\ clock' = clock + JobInterval
    /\ UNCHANGED <<temp_root, sweep, scheduler>>
    /\ UNCHANGED cleanup
    /\ UNCHANGED handlerVars

\* a request creates its run directory: os.makedirs(run_path) at line 327 of
\* transcription.py, which also creates TEMP_DIR
EnvMakeDir(c) ==
    /\ c \in ChildIds
    /\ IF temp_root.exists
       THEN /\ temp_root.children[c].kind = "absent"
            /\ temp_root' = [temp_root EXCEPT !.children[c] = Directory(clock, TRUE)]
       ELSE temp_root' = [exists |-> TRUE,
                          children |-> [d \in ChildIds |->
                                           IF d = c THEN Directory(clock, TRUE)
                                           ELSE Absent]]
    /\ sweep' = [sweep EXCEPT !.fresh = @ \cup {c}]
    /\ UNCHANGED <<clock, scheduler>>
    /\ UNCHANGED cleanup
    /\ UNCHANGED handlerVars

\* start_scheduler, lines 43-48
StartScheduler ==
    /\ scheduler.calls < MaxCalls
    /\ temp_root' = IF temp_root.exists THEN temp_root
                    ELSE [exists |-> TRUE, children |-> [d \in ChildIds |-> Absent]]
    /\ scheduler' = start_scheduler(scheduler)
    /\ UNCHANGED <<clock, sweep>>
    /\ UNCHANGED cleanup
    /\ UNCHANGED handlerVars

\* shutdown_scheduler, lines 51-57
ShutdownScheduler ==
    /\ scheduler.calls < MaxCalls
    /\ scheduler' = shutdown_scheduler(scheduler)
    /\ UNCHANGED <<clock, temp_root, sweep>>
    /\ UNCHANGED cleanup
    /\ UNCHANGED handlerVars

NextReaper ==
    \/ SweepStart
    \/ \E c \in ChildIds : SweepChild(c)
    \/ SweepEnd
    \/ Tick
    \/ \E c \in ChildIds : EnvMakeDir(c)
    \/ StartScheduler
    \/ ShutdownScheduler

SpecReaper == InitReaper /\ [][NextReaper]_vars

----------------------------------------------------------------------------
(* cleanup_old_files one system call at a time, next to the finally blocks *)
(* of the requests that own the directories under TEMP_DIR                 *)

\* what is under TEMP_DIR when the race starts: run directories 10 minutes
\* and 1 minute old, one the operating system protects, two for which
\* os.stat raises, and a plain file
RaceChildren ==
    { PlainFile(0), Directory(0, TRUE), Directory(0, FALSE),
      Directory(540, TRUE), Unreadable(0, "PermissionError"),
      Unreadable(0, "OSError") }

\* a request that has not reached its finally block: pc, what the finally
\* block raised, how the handler ended, and whether a sweep removed the
\* directory (history)
NotCleaning == [pc |-> "none", raised |-> "", exit |-> "", reaped |-> FALSE]

InitRace ==
    /\ files = <<>>
    /\ language = "en"
    /\ authorization = None
    /\ pc = "no_request"
    /\ HandlerIdle
    /\ clock = StartOfTime
    /\ temp_root \in {[exists |-> TRUE, children |-> ch] :
                          ch \in [ChildIds -> RaceChildren]}
    /\ sweep = NoSweep
    /\ scheduler = NoScheduler
    /\ cleanup = [c \in ChildIds |-> NotCleaning]

\* the sweep after an exception was raised in the body of its loop for
\* child c: the except clauses end the iteration, or the exception leaves
\* cleanup_old_files
after_exception(sw, c, error) ==
    IF except_clause(error) = ""
    THEN [sw EXCEPT !.caught[sw.run] = @ \cup {<<c, error>>},
                    !.listing = remaining(@, c, FALSE),
                    !.pc = "loop",
                    !.cur = 0]
    ELSE [sw EXCEPT !.raised = except_clause(error),
                    !.listing = {},
                    !.pc = "idle",
                    !.cur = 0]

\* lines 26-30: the next name of the listing and os.path.isdir, which is
\* False for a name that is gone
SweepIsDir(c) ==
    /\ sweep.pc = "loop"
    /\ c \in sweep.listing
    /\ LET isdir == temp_root.children[c].kind = "dir"
       IN  sweep' = [sweep EXCEPT
                        !.after_error[sweep.run] =
                            IF sweep.caught[sweep.run] # {} THEN @ \cup {c} ELSE @,
                        !.examined[sweep.run] = @ \cup {c},
                        !.cur = IF isdir THEN c ELSE 0,
                        !.pc = IF isdir THEN "stat" ELSE "loop",
                        !.listing = IF isdir THEN @ ELSE remaining(@, c, FALSE)]
    /\ UNCHANGED <<clock, temp_root, scheduler, cleanup>>
    /\ UNCHANGED handlerVars

\* line 31: os.stat and the comparison with now - MAX_AGE_SECONDS
SweepStat ==
    /\ sweep.pc = "stat"
    /\ LET c == sweep.cur
           child == temp_root.children[c]
           error == stat_raises(child)
       IN  sweep' = IF error # ""
                    THEN after_exception(sweep, c, error)
                    ELSE IF is_expired(child.mtime, sweep.now)
                    THEN [sweep EXCEPT !.pc = "rmtree",
                                       !.rmtree_calls[sweep.run] = @ \cup {c}]
                    ELSE [sweep EXCEPT !.pc = "loop",
                                       !.cur = 0,
                                       !.listing = remaining(@, c, FALSE)]
    /\ UNCHANGED <<clock, temp_root, scheduler, cleanup>>
    /\ UNCHANGED handlerVars

\* line 32: shutil.rmtree(dirpath, ignore_errors=True) unlinks the entries
SweepUnlink ==
    /\ sweep.pc = "rmtree"
    /\ LET c == sweep.cur
           child == temp_root.children[c]
           error == rmtree_raises(child, TRUE)
       IN  IF error # ""
           THEN /\ sweep' = after_exception(sweep, c, error)
                /\ temp_root' = temp_root
           ELSE /\ sweep' = [sweep EXCEPT !.pc = "rmdir"]
                /\ temp_root' = [temp_root EXCEPT
                                    !.children[c] = rmtree_unlink(child, clock)]
    /\ UNCHANGED <<clock, scheduler, cleanup>>
    /\ UNCHANGED handlerVars

\* line 32, continued: shutil.rmtree removes the directory itself; the
\* iteration ends
SweepRmdir ==
    /\ sweep.pc = "rmdir"
    /\ LET c == sweep.cur
           child == temp_root.children[c]
           left == rmtree_rmdir(child)
       IN  /\ temp_root' = [temp_root EXCEPT !.children[c] = left]
           /\ sweep' = [sweep EXCEPT
                           !.deleted[sweep.run] =
                               IF left # child THEN @ \cup {c} ELSE @,
                           !.listing = remaining(@, c, TRUE),
                           !.pc = "loop",
                           !.cur = 0]
    /\ UNCHANGED <<clock, scheduler, cleanup>>
    /\ UNCHANGED handlerVars

\* transcription.py, lines 401-408: the finally block of the request that
\* owns directory c calls shutil.rmtree(run_path, ignore_errors=True), which
\* unlinks the entries
RequestUnlink(c) ==
    /\ c \in ChildIds
    /\ cleanup[c].pc = "none"
    /\ temp_root.children[c].kind # "file"
    /\ LET child == temp_root.children[c]
       IN  /\ cleanup' = [cleanup EXCEPT
                             ![c].pc = "rmdir",
                             ![c].raised = rmtree_raises(child, TRUE),
                             ![c].exit = "error"]
           /\ temp_root' = [temp_root EXCEPT
                               !.children[c] = rmtree_unlink(child, clock)]
    /\ UNCHANGED <<clock, sweep, scheduler>>
    /\ UNCHANGED handlerVars

\* transcription.py, lines 408-411: shutil.rmtree removes the directory
\* itself and the finally block ends
RequestRmdir(c) ==
    /\ c \in ChildIds
    /\ cleanup[c].pc = "rmdir"
    /\ temp_root' = [temp_root EXCEPT
                        !.children[c] = rmtree_rmdir(temp_root.children[c])]
    /\ cleanup' = [cleanup EXCEPT ![c].pc = "done"]
    /\ UNCHANGED <<clock, sweep, scheduler>>
    /\ UNCHANGED handlerVars

NextRace ==
    \/ SweepStart
    \/ \E c \in ChildIds : SweepIsDir(c)
    \/ SweepStat
    \/ SweepUnlink
    \/ SweepRmdir
    \/ SweepEnd
    \/ \E c \in ChildIds : RequestUnlink(c)
    \/ \E c \in ChildIds : RequestRmdir(c)

SpecRace == InitRace /\ [][NextRace]_vars

----------------------------------------------------------------------------
(* The life of the run directories: requests come and go while the job of  *)
(* the started scheduler fires and the clock advances                      *)

\* the last moment at which a request starts or ends, and the moment at
\* which every directory left behind is older than MAX_AGE_SECONDS
LastArrival == StartOfTime + MaxTicks * JobInterval

Horizon == LastArrival + MAX_AGE_SECONDS + JobInterval

\* how handle_transcription ends once the run directory exists: line 383
\* (the archive is returned), lines 337-347 (raised before the try
\* statement) or an exception inside the try statement
Exits == {"success", "client_failure", "error"}

\* cleanup_old_files from line 22 to line 40 with nothing else running:
\* what the loop leaves of the children of TEMP_DIR
sweep_all(children, now) ==
    [c \in DOMAIN children |->
        IF children[c].kind = "dir" /\ stat_raises(children[c]) = ""
           /\ calls_rmtree(children[c], now)
        THEN rmtree(children[c])
        ELSE children[c]]

\* after start_scheduler (api/index.py, lifespan): TEMP_DIR exists and is
\* empty, the job is registered and the scheduler runs
InitLife ==
    /\ files = <<>>
    /\ language = "en"
    /\ authorization = None
    /\ pc = "no_request"
    /\ HandlerIdle
    /\ clock = StartOfTime
    /\ temp_root = [exists |-> TRUE, children |-> [c \in ChildIds |-> Absent]]
    /\ sweep = NoSweep
    /\ scheduler = start_scheduler(NoScheduler)
    /\ cleanup = [c \in ChildIds |-> NotCleaning]

\* transcription.py, lines 325-331: a request creates its run directory
RequestMakeDir(c) ==
    /\ c \in ChildIds
    /\ clock <= LastArrival
    /\ cleanup[c].pc = "none"
    /\ temp_root' = [temp_root EXCEPT !.children[c] = Directory(clock, TRUE)]
    /\ cleanup' = [cleanup EXCEPT ![c].pc = "running"]
    /\ UNCHANGED <<clock, sweep, scheduler>>
    /\ UNCHANGED handlerVars

\* transcription.py, lines 333-411: the handler ends.  Only an exception in
\* the try statement reaches shutil.rmtree; the archive written at line 376
\* sets the st_mtime of the directory, and cannot be written when a sweep
\* has removed the directory in the meantime
RequestExit(c) ==
    /\ c \in ChildIds
    /\ clock <= LastArrival
    /\ cleanup[c].pc = "running"
    /\ \E wanted \in Exits :
           LET child == temp_root.children[c]
               exit == IF wanted = "success" /\ child.kind # "dir"
                       THEN "error" ELSE wanted
               left == IF exit = "error" THEN rmtree(child)
                       ELSE IF exit = "success"
                       THEN [child EXCEPT !.mtime = clock]
                       ELSE child
           IN  /\ temp_root' = [temp_root EXCEPT !.children[c] = left]
               /\ cleanup' = [cleanup EXCEPT ![c].pc = "done",
                                             ![c].exit = exit]
    /\ UNCHANGED <<clock, sweep, scheduler>>
    /\ UNCHANGED handlerVars

\* the interval job of line 46 fires: one run of cleanup_old_files
JobFires ==
    /\ scheduler.state = "running"
    /\ scheduler.jobs >= 1
    /\ temp_root.exists
    /\ LET left == sweep_all(temp_root.children, clock)
       IN  /\ temp_root' = [temp_root EXCEPT !.children = left]
           /\ cleanup' = [c \in DOMAIN cleanup |->
                             IF left[c] # temp_root.children[c]
                             THEN [cleanup[c] EXCEPT !.reaped = TRUE]
                             ELSE cleanup[c]]
    /\ UNCHANGED <<clock, sweep, scheduler>>
    /\ UNCHANGED handlerVars

\* time passes by one interval of the job
TickLife ==
    /\ clock < Horizon
    /\ clock' = clock + JobInterval
    /\ UNCHANGED <<temp_root, sweep, scheduler, cleanup>>
    /\ UNCHANGED handlerVars

NextLife ==
    \/ \E c \in ChildIds : RequestMakeDir(c)
    \/ \E c \in ChildIds : RequestExit(c)
    \/ JobFires
    \/ TickLife

\* the scheduler stays started, its job keeps firing and the clock advances
SpecLife ==
    /\ InitLife
    /\ [][NextLife]_vars
    /\ WF_vars(JobFires)
    /\ WF_vars(TickLife)

----------------------------------------------------------------------------
(* Vocabulary of the claims *)

Done == pc = "done"

Indices == 0..(Len(files) - 1)

Range(q) == {q[k] : k \in 1..Len(q)}

\* the batch indices whose item ended in one of the given stages
ItemsIn(stages) == {i \in Indices : outcome[i].stage \in stages}

\* the positions of the archive entries named error_*
ErrorEntries == {k \in 1..Len(archive) : StartsWith(archive[k].name, ErrorPrefix)}

\* the handler returned the archive response
ReturnedArchive == Done /\ response = FileResponse

\* stem(filename) + ".txt"
TxtName(i) == SplitextRoot(files[i + 1].filename) \o TxtExt

Accepted(k) == validate_file(files[k]) = NoError

NothingTouched == dirs = {} /\ disk = {} /\ called = {}

----------------------------------------------------------------------------
(* C1: for every batch that reaches archive construction, the returned     *)
(* archive has as many entries as the batch has items: every batch index   *)
(* contributes exactly one entry.  (Stated as claimed; the code violates   *)
(* it: rejected and save-failed items get no entry, and a transcript whose *)
(* position is no key of output_filenames is dropped.)                     *)
C1_EntryCountEqualsBatchSize ==
    (ReturnedArchive /\ faults = {}) => Len(archive) = Len(files)

(* C2: result-to-index correlation is exact: every item that was saved and *)
(* transcribed has an entry stem(filename)+".txt" holding its own trimmed  *)
(* transcript, and every transcript entry holds the transcript of the item *)
(* it is named after.  (Stated as claimed; the code violates it when an    *)
(* item at a lower index was rejected or failed to save.)                  *)
C2_ExactCorrelation ==
    (ReturnedArchive /\ faults = {}) =>
        /\ \A i \in ItemsIn({"transcribed"}) :
               \E k \in 1..Len(archive) :
                   /\ archive[k].name = TxtName(i)
                   /\ archive[k].content = Strip(outcome[i].text)
        /\ \A k \in (1..Len(archive)) \ ErrorEntries :
               \E i \in ItemsIn({"transcribed"}) :
                   /\ archive[k].name = TxtName(i)
                   /\ archive[k].content = Strip(outcome[i].text)

(* C3: in a batch with an accepted item, every item that was rejected or   *)
(* failed to save has one error_* entry in the archive, a rejected item's  *)
(* entry carrying its rejection reason, and the response is HTTP 200.      *)
(* (Stated as claimed; the code writes no entry for such items.)           *)
C3_RejectedItemsHaveErrorEntries ==
    (Done /\ "create_zip_response" \in called /\ faults = {}) =>
        /\ response.status = HTTP_200_OK
        /\ Cardinality(ErrorEntries) =
               Cardinality(ItemsIn({"rejected", "save_failed", "transcribe_failed"}))
        /\ \A i \in ItemsIn({"rejected"}) :
               \E k \in ErrorEntries :
                   outcome[i].reason.msg \in Range(archive[k].content)

(* C4: once a batch has an accepted item, transcription failures of any    *)
(* subset of the saved files never become an HTTP error: unless writing    *)
(* the archive itself raises, the response is HTTP 200 and the archive     *)
(* holds exactly one error_* entry per file whose transcription failed.    *)
C4_TranscriptionFailuresStayInArchive ==
    (Done /\ "create_zip_response" \in called
          /\ "create_zip_response" \notin faults) =>
        /\ response.status = HTTP_200_OK
        /\ Cardinality(ErrorEntries) = Cardinality(ItemsIn({"transcribe_failed"}))
        /\ \A j \in 1..Len(results) :
               results[j].kind = "exc" =>
                   \E k \in ErrorEntries :
                       archive[k].content = <<"Transcription failed: ", results[j].exc>>

\* every saved file of a batch of two or more failed to transcribe, with a
\* provider authentication error among the failures, and the answer is 200
C4_Witness ==
    /\ ReturnedArchive
    /\ Len(results) >= 2
    /\ \A j \in 1..Len(results) : results[j].kind = "exc"
    /\ \E j \in 1..Len(results) : results[j].exc = "AuthenticationError"
    /\ Cardinality(ErrorEntries) = Len(results)

(* C5: a batch of more than MAX_FILES_LIMIT (5) items fails with HTTP 400  *)
(* whose detail names the maximum of 5, and at no point of the request is  *)
(* a working directory created, a file validated, saved or transcribed, or *)
(* a file written.                                                         *)
C5_TooManyFiles ==
    Len(files) > MAX_FILES_LIMIT =>
        /\ NothingTouched
        /\ pc \in {"start", "done"}
        /\ Done => /\ response.status = HTTP_400_BAD_REQUEST
                   /\ response.detail.msg =
                          "A maximum of {MAX_FILES_LIMIT} files can be processed at once."
                   /\ response.detail.limit = 5

C5_Witness ==
    Done /\ Len(files) = MAX_FILES_LIMIT + 1 /\ response.status = HTTP_400_BAD_REQUEST

(* C6: a non-empty batch whose items are all rejected fails with HTTP 400  *)
(* "No valid MP3 files were provided", the detail lists the rejection      *)
(* reason of every item, no save and no transcription is started, no       *)
(* archive is produced and the working directory is gone when the error    *)
(* leaves the handler.                                                     *)
C6_AllRejected ==
    (files # <<>> /\ \A k \in 1..Len(files) : ~Accepted(k)) =>
        /\ pc \notin {"saving", "transcribing"}
        /\ {"save_file", "transcribe_file", "create_zip_response"} \cap called = {}
        /\ archive = <<>>
        /\ (Done /\ "process_files" \in called) =>
               /\ response.status = HTTP_400_BAD_REQUEST
               /\ response.detail.msg = "No valid MP3 files were provided. Errors: "
               /\ \A k \in 1..Len(files) :
                      validate_file(files[k]) \in Range(response.detail.errors)
               /\ run_id \notin dirs
               /\ disk = {}

\* a batch of two items rejected for different reasons was answered
C6_Witness ==
    /\ Done
    /\ "process_files" \in called
    /\ Len(files) = 2
    /\ files[1].filename = None
    /\ files[2].filename = <<"b", ".", "w", "a", "v">>
    /\ Len(response.detail.errors) = 2

(* C7 as claimed: every batch of size 0..max in which zero items pass      *)
(* validation, the empty batch included, is answered with HTTP 400 and no  *)
(* archive.  (The code answers the empty batch with an empty archive.)     *)
C7_ZeroAcceptedIsFatal ==
    (Done /\ "process_files" \in called /\ faults = {}
          /\ \A k \in 1..Len(files) : ~Accepted(k)) =>
        /\ response.status = HTTP_400_BAD_REQUEST
        /\ "create_zip_response" \notin called
        /\ archive = <<>>

(* C7 as amended: every batch of size 1..max in which zero items pass      *)
(* validation is answered with HTTP 400 and no archive is written; the     *)
(* empty batch is not fatal: it goes on to archive construction and,       *)
(* unless writing the archive raises, is answered with HTTP 200 and an     *)
(* archive without entries.                                                *)
C7_NonEmptyZeroAcceptedIsFatal ==
    (Done /\ "process_files" \in called
          /\ \A k \in 1..Len(files) : ~Accepted(k)) =>
        IF files # <<>>
        THEN /\ response.status = HTTP_400_BAD_REQUEST
             /\ "create_zip_response" \notin called
             /\ archive = <<>>
        ELSE /\ "create_zip_response" \in called
             /\ archive = <<>>
             /\ "create_zip_response" \notin faults => response = FileResponse

\* the empty batch was answered with the archive response
C7_Witness ==
    Done /\ files = <<>> /\ response = FileResponse /\ run_id \in dirs

(* C8: a request whose language is not en or pt (batch size within the     *)
(* limit) fails with HTTP 400 "Unsupported language selected." and at no   *)
(* point is a working directory created or a file validated, saved or      *)
(* transcribed.                                                            *)
C8_UnsupportedLanguage ==
    (Len(files) <= MAX_FILES_LIMIT /\ language \notin {"en", "pt"}) =>
        /\ NothingTouched
        /\ pc \in {"start", "done"}
        /\ Done => /\ response.status = HTTP_400_BAD_REQUEST
                   /\ response.detail.msg = "Unsupported language selected."

C8_Witness ==
    /\ Done
    /\ language = "fr"
    /\ \E k \in 1..Len(files) : Accepted(k)
    /\ StartsWith(authorization, Bearer)
    /\ response.status = HTTP_400_BAD_REQUEST

\* the Authorization header is absent or does not start with "Bearer "
BadAuthorization ==
    \/ authorization = None
    \/ Len(authorization) < 7
    \/ \E k \in 1..7 : authorization[k] # Bearer[k]

(* C9: a request whose Authorization header is absent or does not start    *)
(* with "Bearer " (batch size and language valid) fails with HTTP 400      *)
(* "API key must be provided ..." and at no point is a working directory   *)
(* created or a file validated, saved or transcribed.                      *)
C9_MissingCredential ==
    (Len(files) <= MAX_FILES_LIMIT /\ language \in {"en", "pt"}
                                   /\ BadAuthorization) =>
        /\ NothingTouched
        /\ pc \in {"start", "done"}
        /\ Done => /\ response.status = HTTP_400_BAD_REQUEST
                   /\ response.detail.msg =
                          "API key must be provided in the Authorization header as 'Bearer <api_key>'"

\* a request with another authorization scheme and an accepted file was refused
C9_Witness ==
    /\ Done
    /\ language = "en"
    /\ authorization = <<"B", "a", "s", "i", "c", " ", "k">>
    /\ \E k \in 1..Len(files) : Accepted(k)
    /\ response.status = HTTP_400_BAD_REQUEST

(* C10: once the working directory exists, every exit of the request that  *)
(* is not the archive response (client construction failure, no valid      *)
(* items, a fault while saving, transcribing or writing the archive) has   *)
(* deleted the directory; only the archive response leaves it in place.    *)
(* (Stated as claimed; the code raises the client construction failure     *)
(* outside the try block and leaves the directory.)                        *)
C10_DirectoryDeletedOnEveryErrorExit ==
    (Done /\ "makedirs" \in called) =>
        (run_id \in dirs <=> response = FileResponse)

----------------------------------------------------------------------------
(* Claims about validate_file and save_file, under SpecUpload *)

\* the upload of SpecUpload and what validate_file returned for it
TheFile == files[1]

Validated == pc \in {"rejected", "save_file", "returned"}

\* the name ends, case-insensitively, in .mp3 or .mpeg after at least one
\* other character
EndsIn(fn, ext) ==
    /\ Len(fn) > Len(ext)
    /\ \A k \in 1..Len(ext) : LowerChar(fn[Len(fn) - Len(ext) + k]) = ext[k]

AllowedExtension(fn) == fn # None /\ (EndsIn(fn, Mp3Ext) \/ EndsIn(fn, MpegExt))

(* C11: an upload whose file name extension, compared case-insensitively,  *)
(* is outside {.mp3, .mpeg} is rejected by validate_file whatever its      *)
(* declared media type and size; a missing file name is always rejected.   *)
C11_BadExtensionRejected ==
    (Validated /\ ~AllowedExtension(TheFile.filename)) =>
        /\ validation_errors[1] # NoError
        /\ pc = "rejected"
        /\ TheFile.filename = None =>
               validation_errors[1].msg = "File has no filename"

\* a .wav upload declared as audio/mpeg, of acceptable size, was rejected
C11_Witness ==
    /\ pc = "rejected"
    /\ TheFile.filename = <<"b", ".", "w", "a", "v">>
    /\ TheFile.content_type = "audio/mpeg"
    /\ TheFile.size = 3
    /\ validation_errors[1].msg = "File {filename} has invalid extension: {file_extension}"

(* C12 as claimed: an upload with an allowed extension (.mp3 or .mpeg) and *)
(* a size of at most 100 MiB is accepted whatever its declared media type. *)
(* (The code rejects a .mpeg name with a media type other than audio/mpeg  *)
(* and audio/mp3.)                                                         *)
C12_ExtensionIsAuthoritative ==
    (Validated /\ AllowedExtension(TheFile.filename)
               /\ TheFile.size <= 100 * 1024 * 1024) =>
        validation_errors[1] = NoError

(* C12 as amended: the extension is authoritative for .mp3 only: with a    *)
(* size of at most 100 MiB, a .mp3 name is accepted whatever the declared  *)
(* media type, and a .mpeg name is accepted exactly when the declared      *)
(* media type is audio/mpeg or audio/mp3.                                  *)
C12_Mp3ExtensionIsAuthoritative ==
    (Validated /\ AllowedExtension(TheFile.filename)
               /\ TheFile.size <= 100 * 1024 * 1024) =>
        (validation_errors[1] = NoError <=>
            \/ EndsIn(TheFile.filename, Mp3Ext)
            \/ TheFile.content_type \in {"audio/mpeg", "audio/mp3"})

\* an upper-case .MP3 name declared as video/mpeg, of exactly 100 MiB, was
\* accepted
C12_Witness ==
    /\ pc = "save_file"
    /\ TheFile.filename = <<"A", ".", "M", "P", "3">>
    /\ TheFile.content_type = "video/mpeg"
    /\ TheFile.size = MAX_FILE_SIZE
    /\ validation_errors[1] = NoError

----------------------------------------------------------------------------
(* Claims about the stages of handle_transcription, under Spec *)

(* C17: a provider authentication, connection or generic API error raised  *)
(* while a file is transcribed makes the request end with HTTP 401.        *)
(* (Stated as claimed; gather(return_exceptions=True) keeps the exception  *)
(* as a result, so the except clause of line 386 never sees it and the     *)
(* request ends with HTTP 200.)                                            *)
C17_ProviderErrorGives401 ==
    (Done /\ faults = {}
          /\ \E j \in 1..Len(results) :
                 /\ results[j].kind = "exc"
                 /\ results[j].exc \in
                        {"AuthenticationError", "APIConnectionError", "APIError"}) =>
        response.status = 401

AllDone(states) == \A t \in 1..Len(states) : states[t] = "done"

Started(states) == \E t \in 1..Len(states) : states[t] # "pending"

(* C19: within one request every item is validated before any save        *)
(* starts, no transcription starts before every save of the batch has      *)
(* finished, and the archive is written only after every transcription     *)
(* has resolved: never while a save or a transcription is in flight.       *)
C19_StageOrdering ==
    /\ ("save_file" \in called \/ Started(tasks.save)) =>
           /\ \A i \in Indices : outcome[i].stage # "none"
           /\ Len(validation_errors) + Len(save_tasks) = Len(files)
    /\ ("transcribe_file" \in called \/ Started(tasks.transcribe)) =>
           /\ AllDone(tasks.save)
           /\ \A t \in 1..Len(save_results) : save_results[t].kind = "tuple"
    /\ ("create_zip_response" \in called \/ archive # <<>>
            \/ \E f \in disk : f.path = os_path_join(run_id, ZipName)) =>
           /\ AllDone(tasks.save)
           /\ AllDone(tasks.transcribe)
           /\ \A j \in 1..Len(results) : results[j].kind \in {"str", "exc"}

\* the archive of a batch with a rejected item, two saves and two
\* transcriptions, where some task finished before one started earlier
C19_Witness ==
    /\ ReturnedArchive
    /\ validation_errors # <<>>
    /\ Len(tasks.save) >= 2
    /\ Len(tasks.transcribe) >= 2
    /\ tasks.reordered
    /\ archive # <<>>

\* the batch indices whose file was saved, in the order of the batch
RECURSIVE SavedInOrder(_)
SavedInOrder(i) ==
    IF i >= Len(files) THEN <<>>
    ELSE (IF outcome[i].stage \in {"transcribed", "transcribe_failed"}
          THEN <<i>> ELSE <<>>) \o SavedInOrder(i + 1)

\* the archive as a function of the batch and of the per-item outcomes only
ArchiveOfOutcomes ==
    LET saved == SavedInOrder(0)
        rs == [k \in 1..Len(saved) |->
                  IF outcome[saved[k]].stage = "transcribed"
                  THEN StrResult(outcome[saved[k]].text)
                  ELSE ExcResult(outcome[saved[k]].reason.msg)]
        ofn == [i \in Range(saved) |-> TxtName(i)]
    IN  create_zip_response(rs, ofn)

(* C20: for a fixed batch with fixed per-item validation, save and         *)
(* transcription outcomes the archive entries are the same under every     *)
(* interleaving and completion order of the save tasks and of the          *)
(* transcription tasks: the archive is a function of the batch and of the  *)
(* per-item outcomes.                                                      *)
C20_CompletionOrderIndependence ==
    ReturnedArchive => archive = ArchiveOfOutcomes

\* two transcriptions with different results, completed out of order
C20_Witness ==
    /\ ReturnedArchive
    /\ tasks.reordered
    /\ Len(results) >= 2
    /\ results[1].kind = "str"
    /\ results[2].kind = "exc"
    /\ Len(archive) >= 2

----------------------------------------------------------------------------
(* Claims about tasks.py, under SpecReaper *)

\* a run of cleanup_old_files has returned
SweepReturned == sweep.run >= 1 /\ sweep.pc = "idle"

C14_SecondSweepRemovesNothing ==
    (SweepReturned /\ sweep.run = 2
                   /\ sweep.nows[1] = sweep.nows[2]
                   /\ sweep.fresh_at_start[2] = {}) =>
        sweep.deleted[2] = {}

\* the first of two such runs removed two directories, the second none
C14_Witness ==
    /\ SweepReturned
    /\ sweep.run = 2
    /\ sweep.nows[1] = sweep.nows[2]
    /\ sweep.fresh_at_start[2] = {}
    /\ Cardinality(sweep.deleted[1]) = 2
    /\ sweep.deleted[2] = {}

(* C15: start_scheduler is idempotent: a second call while the scheduler   *)
(* is already started raises nothing and leaves exactly one periodic sweep *)
(* job registered, with TEMP_DIR existing.  (Stated as claimed; the code   *)
(* adds a second job and scheduler.start() raises.)                        *)
C15_StartIsIdempotent ==
    (scheduler.call = "start_scheduler" /\ scheduler.prev = "running") =>
        /\ scheduler.raised = ""
        /\ scheduler.jobs = 1
        /\ temp_root.exists

(* C16: shutdown_scheduler never raises past its caller: whether the       *)
(* scheduler was never started, is running or is already stopped, it       *)
(* returns normally, having called scheduler.shutdown() exactly once.      *)
C16_ShutdownNeverRaises ==
    scheduler.call = "shutdown_scheduler" =>
        /\ scheduler.raised = ""
        /\ scheduler.shutdown_calls = 1
        /\ scheduler.state = "stopped"

\* shutdown_scheduler returned for a scheduler that was never started
C16_Witness ==
    /\ scheduler.call = "shutdown_scheduler"
    /\ scheduler.prev = "stopped"
    /\ ~scheduler.ever_started
    /\ scheduler.raised = ""

----------------------------------------------------------------------------
(* Claims about the save stage, under Spec *)

\* process_files has returned to the handler
SavesCollected == pc = "transcribing" \/ (Done /\ "create_zip_response" \in called)

\* the save of task t failed: no filename, nothing written, or a write raised
SaveFailed(t) ==
    \/ save_tasks[t].file.filename = None
    \/ save_tasks[t].file.size = 0
    \/ t \in tasks.write_raised

\* the position in saved_files of the successful save task t
SavedPosition(t) == Cardinality({u \in 1..t : ~SaveFailed(u)})

(* C21: save failures are isolated.  Once process_files has returned,      *)
(* every save task of the batch has run to completion and none has raised  *)
(* to the orchestrator; a save that failed (no filename, zero bytes        *)
(* written, or a write raising) has left no saved file and no output name  *)
(* for its index; every save that succeeded has its path in saved_files    *)
(* and its output name under its index, and when the handler returns the   *)
(* archive a transcription task has run for it.                            *)
C21_SaveFailuresAreIsolated ==
    SavesCollected =>
        /\ Len(saved_files) =
               Cardinality({t \in 1..Len(save_tasks) : ~SaveFailed(t)})
        /\ \A t \in 1..Len(save_tasks) :
               LET task == save_tasks[t]
               IN  /\ tasks.save[t] = "done"
                   /\ save_results[t].kind = "tuple"
                   /\ SaveFailed(t) =>
                          /\ task.index \notin DOMAIN output_filenames
                          /\ outcome[task.index].stage = "save_failed"
                   /\ ~SaveFailed(t) =>
                          /\ task.index \in DOMAIN output_filenames
                          /\ saved_files[SavedPosition(t)] =
                                 os_path_join(run_id, task.file.filename)
                          /\ ReturnedArchive =>
                                 /\ results[SavedPosition(t)].kind \in {"str", "exc"}
                                 /\ outcome[task.index].stage \in
                                        {"transcribed", "transcribe_failed"}

\* in a batch of three accepted items one save wrote zero bytes, one had a
\* write raise, and the third was saved and transcribed
C21_Witness ==
    /\ ReturnedArchive
    /\ Len(save_tasks) = 3
    /\ \E t, u, v \in 1..3 :
           /\ save_tasks[t].file.size = 0
           /\ u \in tasks.write_raised /\ save_tasks[u].file.size > 0
           /\ ~SaveFailed(v)
           /\ outcome[save_tasks[v].index].stage = "transcribed"

----------------------------------------------------------------------------
(* Claims about the sweep next to other actors, under SpecRace *)

\* child c was, when the last sweep started, a directory that the sweep is
\* to remove and that can be examined and removed
WasExpired(c) ==
    /\ c \in DOMAIN sweep.before
    /\ sweep.before[c].kind = "dir"
    /\ sweep.before[c].stat = ""
    /\ sweep.before[c].removable
    /\ sweep.nows[sweep.run] - sweep.before[c].mtime > 300

(* C22: an error while examining or removing one child of TEMP_DIR does    *)
(* not stop the sweep.  When cleanup_old_files has returned it has raised  *)
(* nothing, every name that was listed has been examined, every directory  *)
(* for which os.stat raises has had its exception caught (unless its       *)
(* request removed it first), and every other directory older than 5       *)
(* minutes that can be removed is gone, or is being removed by its own     *)
(* request.                                                                *)
C22_SweepSurvivesErrors ==
    SweepReturned =>
        LET k == sweep.run
            old == sweep.before
        IN  /\ sweep.raised = ""
            /\ sweep.examined[k] = {c \in DOMAIN old : old[c].kind # "absent"}
            /\ \A c \in DOMAIN old :
                   /\ (old[c].kind = "dir" /\ old[c].stat # "") =>
                          \/ <<c, old[c].stat>> \in sweep.caught[k]
                          \/ cleanup[c].pc # "none"
                   /\ WasExpired(c) =>
                          \/ temp_root.children[c].kind = "absent"
                          \/ cleanup[c].pc = "rmdir"

\* with no request involved, os.stat raised PermissionError for one child
\* and the sweep went on to examine and remove another
C22_Witness ==
    /\ SweepReturned
    /\ sweep.run = 1
    /\ \A c \in ChildIds : cleanup[c].pc = "none"
    /\ \E c, d \in ChildIds :
           /\ c # d
           /\ <<c, "PermissionError">> \in sweep.caught[1]
           /\ d \in sweep.after_error[1]
           /\ d \in sweep.deleted[1]
           /\ temp_root.children[d].kind = "absent"

(* C23: under every interleaving of the finally block of a request and a   *)
(* sweep that work on the same run directory, neither raises - a directory *)
(* that is already gone is no error for either - and once both have        *)
(* finished the directory is absent, unless the operating system protects  *)
(* it.                                                                     *)
C23_RaceToleratesAlreadyGone ==
    \A c \in DOMAIN cleanup :
        /\ sweep.raised = ""
        /\ cleanup[c].raised = ""
        /\ (SweepReturned /\ cleanup[c].pc = "done") =>
               \/ temp_root.children[c].kind = "absent"
               \/ ~temp_root.children[c].removable

\* the request removed its directory between the sweep's os.path.isdir and
\* os.stat: the sweep caught FileNotFoundError, and both have finished
C23_Witness ==
    /\ SweepReturned
    /\ \E c \in DOMAIN cleanup :
           /\ cleanup[c].pc = "done"
           /\ WasExpired(c)
           /\ <<c, "FileNotFoundError">> \in sweep.caught[sweep.run]
           /\ temp_root.children[c].kind = "absent"

\* the sweep and the request each ran shutil.rmtree on the same directory
\* at the same time: the request removed the directory after the sweep had
\* unlinked its entries
C23_WitnessBothRemove ==
    /\ sweep.pc = "rmdir"
    /\ cleanup[sweep.cur].pc = "done"
    /\ temp_root.children[sweep.cur].kind = "absent"

----------------------------------------------------------------------------
(* Claims about the life of the run directories, under SpecLife *)

(* C24: every run directory created under TEMP_DIR is eventually deleted,  *)
(* however its request ends - by the finally block of the request, or,     *)
(* when the handler left it in place, by a sweep once it is older than 5   *)
(* minutes - as long as the scheduler stays started, its job keeps firing  *)
(* and the clock advances.                                                 *)
C24_EveryRunDirectoryIsEventuallyDeleted ==
    \A c \in ChildIds :
        (temp_root.children[c].kind = "dir")
            ~> (temp_root.children[c].kind = "absent")

\* the directory of a request that returned its archive at the last moment
\* has been removed by a sweep
C24_Witness ==
    \E c \in DOMAIN cleanup :
        /\ cleanup[c].exit = "success"
        /\ cleanup[c].reaped
        /\ temp_root.children[c].kind = "absent"
        /\ clock = Horizon

----------------------------------------------------------------------------
(* Claims about cancellation, under Spec *)

\* the files under the run directory of the request
OwnFiles == {f \in disk : f.path.dir = run_id}

(* C25: when the task of the request is cancelled at a suspension point    *)
(* after the run directory was created and before the archive response is  *)
(* returned - during the saves or while awaiting the transcriptions - the  *)
(* finally block still runs and the run directory is deleted with all its  *)
(* files.                                                                  *)
C25_CancellationStillCleansUp ==
    (Done /\ response = Cancelled) =>
        /\ "makedirs" \in called
        /\ dirs = {}
        /\ OwnFiles = {}

\* the request was cancelled while a save had its file open, after another
\* save had written its file
C25_Witness ==
    /\ Done
    /\ response = Cancelled
    /\ \E t, u \in DOMAIN tasks.save :
           /\ tasks.save[t] = "cancelled"
           /\ tasks.save[u] = "done"
           /\ save_results[u].file_path # NoPath
    /\ dirs = {}

\* the request was cancelled while a transcription was running in its thread
C25_WitnessTranscribing ==
    /\ Done
    /\ response = Cancelled
    /\ \E j \in DOMAIN tasks.transcribe : tasks.transcribe[j] = "cancelled"
    /\ dirs = {}

----------------------------------------------------------------------------
(* Claims about the place of the saved file, under SpecUpload *)

(* C26: confinement to the own run directory: for every accepted upload    *)
(* and every file name the client sends, names with directory components   *)
(* such as "../x.mp3" or an absolute path included, every file the request *)
(* creates or writes lies inside its own TEMP_DIR/<run_id>.  (Stated as    *)
(* claimed; the code joins the raw file name to run_path.)                 *)
C26_WritesStayInRunDirectory ==
    \A f \in disk : f.path.dir = run_id

----------------------------------------------------------------------------
(* Claims about equal file names in one batch, under Spec *)

\* the elements of sequence q are pairwise distinct
Distinct(q) == \A j, k \in 1..Len(q) : j # k => q[j] # q[k]

(* C27: no two items of one batch share a saved path or an archive entry   *)
(* name: for every batch, one with two accepted items of the same file     *)
(* name included, the saved paths are pairwise distinct, each saved file   *)
(* holds the bytes of its own upload, and the entry names of the archive   *)
(* are pairwise distinct, on a run in which nothing fails.  (Stated as     *)
(* claimed; the code derives the path and the entry name from the file     *)
(* name alone.)                                                            *)
C27_NoSharedPathOrEntryName ==
    (ReturnedArchive /\ faults = {}) =>
        /\ Distinct(saved_files)
        /\ Distinct([k \in 1..Len(archive) |-> archive[k].name])
        /\ \A t \in 1..Len(save_tasks) :
               save_results[t].file_path # NoPath =>
                   \E f \in disk : /\ f.path = save_results[t].file_path
                                   /\ f.data = save_tasks[t].file.data
                                   /\ f.size = save_tasks[t].file.size

====
